---- MODULE Spec2Model ----
(***************************************************************************)
(* Model of src/Update_disk_space.py: the daily disk-usage recorder.        *)
(*                                                                         *)
(* Python integers are unbounded, and the byte counts the recorder handles *)
(* (up to 2^64) exceed the integers of the model checker.  A byte count is  *)
(* therefore a sequence of base-1024 limbs, least significant first, with  *)
(* no leading zero limb; zero is the empty sequence.                       *)
(***************************************************************************)
EXTENDS Integers, Sequences, FiniteSets

(***************************************************************************)
(* Arbitrary-precision naturals (Python int).                              *)
(***************************************************************************)
Base == 1024

Max(x, y) == IF x >= y THEN x ELSE y

Min(x, y) == IF x <= y THEN x ELSE y

Limb(a, i) == IF i >= 1 /\ i <= Len(a) THEN a[i] ELSE 0

RECURSIVE LNorm(_)
LNorm(a) ==
    IF a = <<>> THEN <<>>
    ELSE IF a[Len(a)] = 0 THEN LNorm(SubSeq(a, 1, Len(a) - 1))
    ELSE a

RECURSIVE FromNat(_)
FromNat(n) == IF n = 0 THEN <<>> ELSE <<n % Base>> \o FromNat(n \div Base)

RECURSIVE ToNat(_)
ToNat(a) == IF a = <<>> THEN 0 ELSE a[1] + Base * ToNat(Tail(a))

RECURSIVE LCmpAt(_, _, _)
LCmpAt(a, b, i) ==
    IF i = 0 THEN 0
    ELSE IF a[i] < b[i] THEN -1
    ELSE IF a[i] > b[i] THEN 1
    ELSE LCmpAt(a, b, i - 1)

\* -1, 0 or 1 as a < b, a = b or a > b.
LCmp(a, b) ==
    IF Len(a) < Len(b) THEN -1
    ELSE IF Len(a) > Len(b) THEN 1
    ELSE LCmpAt(a, b, Len(a))

RECURSIVE LAddC(_, _, _, _)
LAddC(a, b, i, c) ==
    IF i > Max(Len(a), Len(b)) THEN FromNat(c)
    ELSE LET s == Limb(a, i) + Limb(b, i) + c
         IN  <<s % Base>> \o LAddC(a, b, i + 1, s \div Base)

LAdd(a, b) == LAddC(a, b, 1, 0)

RECURSIVE LSubB(_, _, _, _)
LSubB(a, b, i, w) ==
    IF i > Len(a) THEN <<>>
    ELSE LET s == a[i] - Limb(b, i) - w
         IN  IF s < 0 THEN <<s + Base>> \o LSubB(a, b, i + 1, 1)
             ELSE <<s>> \o LSubB(a, b, i + 1, 0)

\* a - b, for a >= b.
LSub(a, b) == LNorm(LSubB(a, b, 1, 0))

RECURSIVE LMulC(_, _, _, _)
LMulC(a, c, i, carry) ==
    IF i > Len(a) THEN FromNat(carry)
    ELSE LET s == a[i] * c + carry
         IN  <<s % Base>> \o LMulC(a, c, i + 1, s \div Base)

\* a * c, for a small natural c.
LMulSmall(a, c) == LNorm(LMulC(a, c, 1, 0))

\* The largest d in lo..hi with d * b <= r (lo * b <= r is given).
RECURSIVE QuotDigit(_, _, _, _)
QuotDigit(r, b, lo, hi) ==
    IF lo = hi THEN lo
    ELSE LET mid == (lo + hi + 1) \div 2
         IN  IF LCmp(LMulSmall(b, mid), r) <= 0 THEN QuotDigit(r, b, mid, hi)
             ELSE QuotDigit(r, b, lo, mid - 1)

\* Long division of the limbs a[1..i] by b > 0, most significant limb first:
\* the quotient and the remainder.
RECURSIVE LDivAt(_, _, _, _)
LDivAt(a, b, i, acc) ==
    IF i = 0 THEN acc
    ELSE LET r == LNorm(<<a[i]>> \o acc.r)
             d == QuotDigit(r, b, 0, Base - 1)
         IN  LDivAt(a, b, i - 1,
                    [q |-> LNorm(<<d>> \o acc.q), r |-> LSub(r, LMulSmall(b, d))])

LDivMod(a, b) == LDivAt(a, b, Len(a), [q |-> <<>>, r |-> <<>>])

(***************************************************************************)
(* IEEE-754 doubles.  float(n) rounds n to 53 significant bits, ties to    *)
(* even; the result is an integer, kept as limbs.  Dividing a double by    *)
(* 1024.0 is exact, so the running value of _bytes_to_human is the pair    *)
(* [m, e] standing for m / 1024^e.                                         *)
(***************************************************************************)
MantissaBits == 53

RECURSIVE Pow2(_)
Pow2(e) == IF e = 0 THEN 1 ELSE 2 * Pow2(e - 1)

RECURSIVE BitsOf(_)
BitsOf(x) == IF x = 0 THEN 0 ELSE 1 + BitsOf(x \div 2)

\* The bits of a limb.
LimbBits == BitsOf(Base - 1)

BitLen(a) == IF a = <<>> THEN 0 ELSE LimbBits * (Len(a) - 1) + BitsOf(a[Len(a)])

\* 2^e as limbs.
LPow2(e) ==
    [i \in 1..(e \div LimbBits + 1) |->
        IF i = e \div LimbBits + 1 THEN Pow2(e % LimbBits) ELSE 0]

\* a mod 2^d.
LowBits(a, d) ==
    LNorm(SubSeq(a, 1, d \div LimbBits)
          \o <<Limb(a, d \div LimbBits + 1) % Pow2(d % LimbBits)>>)

\* Bit d of a (bit 0 is the least significant).
BitAt(a, d) == (Limb(a, d \div LimbBits + 1) \div Pow2(d % LimbBits)) % 2

\* float(n), line 30: exact up to 53 bits, else round to nearest, ties to even.
ToFloat(n) ==
    LET d == BitLen(n) - MantissaBits
    IN  IF d <= 0 THEN n
        ELSE LET lo   == LowBits(n, d)
                 kept == LSub(n, lo)
                 c    == LCmp(lo, LPow2(d - 1))
             IN  IF c > 0 \/ (c = 0 /\ BitAt(n, d) = 1)
                 THEN LAdd(kept, LPow2(d))
                 ELSE kept


\* Variant of LessThanBase: value <= 1024.0.
LessOrEqualBase(value) ==
    Len(value.m) <= value.e + 1 \/ value.m = LPow2(LimbBits * (value.e + 1))

\* value < 1024.0, line 32, for value = m / 1024^e.
LessThanBase(value) == Len(value.m) <= value.e + 1

\* value /= 1024.0, line 34.
DivBase(value) == [m |-> value.m, e |-> value.e + 1]

\* f"{value:.2f}", lines 33 and 35: the value in hundredths, rounded to
\* nearest on its exact binary value, ties to even.
Format2f(value) ==
    LET p    == LMulSmall(value.m, 100)
        k    == value.e
        q    == ToNat(LNorm(SubSeq(p, k + 1, Len(p))))
        top  == Limb(p, k)
        rest == \E i \in 1..(k - 1) : Limb(p, i) # 0
        half == Base \div 2
    IN  IF k = 0 THEN q
        ELSE IF top > half \/ (top = half /\ rest) THEN q + 1
        ELSE IF top = half /\ q % 2 = 1 THEN q + 1
        ELSE q

units == <<"B", "KB", "MB", "GB", "TB", "PB">>

\* The for loop of lines 31-34, at its i-th unit, and the fall-through of
\* line 35.  The result stands for the string "<hundredths/100> <unit>".
RECURSIVE HumanLoop(_, _)
HumanLoop(value, i) ==
    IF i > Len(units) THEN [hundredths |-> Format2f(value), unit |-> "EB"]
    ELSE IF LessThanBase(value)
         THEN [hundredths |-> Format2f(value), unit |-> units[i]]
    ELSE HumanLoop(DivBase(value), i + 1)

_bytes_to_human(n) == HumanLoop([m |-> ToFloat(n), e |-> 0], 1)

(***************************************************************************)
(* free_pct, line 65, and its rendering f"{free_pct:.2f}", line 74: the     *)
(* percentage in hundredths.  The model rounds the exact quotient          *)
(* 10000 * free / total once, to nearest, ties to even; the code rounds it *)
(* three times (the division, the product, the formatting), which can      *)
(* differ from the model only when the exact quotient lies within a few    *)
(* units of the last place of a double of a rounding boundary.             *)
(***************************************************************************)
RoundQuot(a, b) ==
    LET dm    == LDivMod(a, b)
        c     == LCmp(LMulSmall(dm.r, 2), b)
        isOdd == Limb(dm.q, 1) % 2 = 1
    IN  IF c > 0 \/ (c = 0 /\ isOdd) THEN LAdd(dm.q, <<1>>) ELSE dm.q


\* Variant of free_pct: total / free.
free_pct_swapped(free, total) ==
    IF total # <<>> /\ free # <<>>
    THEN RoundQuot(LMulSmall(total, 10000), free)
    ELSE <<>>

\* Variant of free_pct: the fraction, not the percentage.
free_pct_fraction(free, total) ==
    IF total # <<>> THEN RoundQuot(LMulSmall(free, 100), total) ELSE <<>>

free_pct(free, total) ==
    IF total # <<>> THEN RoundQuot(LMulSmall(free, 10000), total) ELSE <<>>

(***************************************************************************)
(* The local clock and calendar: date.today(), line 58, and                *)
(* datetime.now(), line 69.  The clock counts ticks from midnight of       *)
(* Epoch; a day of the model has TicksPerDay ticks.                        *)
(***************************************************************************)
TicksPerDay == 2

MaxClock == 3

Epoch == [year |-> 2024, month |-> 2, day |-> 28]

IsLeap(y) == (y % 4 = 0 /\ y % 100 # 0) \/ y % 400 = 0

DaysInMonth(y, m) ==
    IF m = 2 THEN (IF IsLeap(y) THEN 29 ELSE 28)
    ELSE IF m \in {4, 6, 9, 11} THEN 30
    ELSE 31

NextDay(dt) ==
    IF dt.day < DaysInMonth(dt.year, dt.month)
    THEN [dt EXCEPT !.day = dt.day + 1]
    ELSE IF dt.month < 12
    THEN [dt EXCEPT !.month = dt.month + 1, !.day = 1]
    ELSE [year |-> dt.year + 1, month |-> 1, day |-> 1]

RECURSIVE DateOf(_)
DateOf(n) == IF n = 0 THEN Epoch ELSE NextDay(DateOf(n - 1))

\* datetime.date.today(), line 58.
today(clk) == DateOf(clk \div TicksPerDay)


\* Variant of strftime: "%Y%m".
strftime_month(dt) == dt.year * 100 + dt.month

\* strftime("%Y%m%d"), line 58: the eight digits, read as a number.
strftime(dt) == dt.year * 10000 + dt.month * 100 + dt.day

\* datetime.datetime.now().isoformat(sep=" ", timespec="seconds"), line 69:
\* "YYYY-MM-DD HH:MM:SS" as its date and its time of day.
isoformat(clk) == [date |-> today(clk), time |-> clk % TicksPerDay]

\* os.path.join(out_dir, f"disk_usage_{date_str}.csv"), lines 59-60.
FilePath(out_dir, date_str) == <<out_dir, "disk_usage_", date_str, ".csv">>

(***************************************************************************)
(* The recorder.                                                           *)
(***************************************************************************)
Procs == {1, 2}

\* The calls of a caller that runs them one at a time, and of one that
\* lets them overlap.
MaxCalls == 3

MaxOverlapCalls == 2

None == "None"

home == "~"

\* The path_to_check arguments of the calls: the default, line 51.
PathArgs == {None}

\* The out_dir of every call: the default, line 54.
DefaultOutDir == <<home, "disk_reports">>

\* What shutil.disk_usage, line 63, reports.
ScenarioUsage ==
    [total |-> <<0, 0, 0, 1000>>,
     used  |-> <<0, 162, 677, 465>>,
     free  |-> <<0, 862, 346, 534>>]

EmptyUsage == [total |-> <<>>, used |-> <<>>, free |-> <<>>]

Reports == {ScenarioUsage, EmptyUsage}

\* Byte counts around every unit boundary 1024^k, up to k = MaxPow.
MaxPow == 6

LPow(k) == [i \in 1..(k + 1) |-> IF i = k + 1 THEN 1 ELSE 0]

Samples ==
    {FromNat(n) : n \in {0, 2, 3, 7}}
    \cup {LPow(k) : k \in 0..MaxPow}
    \cup {LSub(LPow(k), FromNat(c)) : k \in 1..MaxPow, c \in {1, 64, 65}}
    \cup {LAdd(LPow(k), LMulSmall(LPow(k - 1), Base \div 2)) : k \in 1..MaxPow}

SampleReports ==
    UNION {{[total |-> t, used |-> u, free |-> f] : u \in {<<>>, t}} :
              t \in Samples, f \in Samples}

fieldnames ==
    <<"timestamp", "path", "total_bytes", "used_bytes", "free_bytes",
      "free_percent", "total_human", "used_human", "free_human">>

\* A line of a CSV file: the header row or a data row, with its cells.
HeaderLine == [kind |-> "header", cells |-> fieldnames]

\* csv.DictWriter.writerow, line 98: the cells in the order of fieldnames.
RowLine(row) ==
    [kind |-> "row", cells |-> [i \in 1..Len(fieldnames) |-> row[fieldnames[i]]]]

NoDate == [year |-> 0, month |-> 0, day |-> 0]

NoPath == <<>>

NoRow == <<>>

VARIABLES
    clock,          \* the local clock, in ticks
    serial,         \* the caller runs its invocations one at a time
    dirExists,      \* out_dir exists
    files,          \* the files of out_dir: path -> sequence of lines
    pc,             \* each invocation's position in update_daily_disk_csv
    path_to_check,  \* locals of update_daily_disk_csv, per invocation
    date_today,     \* the value of datetime.date.today() at line 58
    filepath,
    usage,
    row,
    write_header,
    buf,            \* the lines written to f and not yet flushed
    history         \* the completed calls, in order of completion

vars ==
    <<clock, serial, dirExists, files, pc, path_to_check, date_today, filepath,
      usage, row, write_header, buf, history>>

Active == {p \in Procs : pc[p] # "idle"}

\* A completed call as its caller sees it: the date the call took for today
\* (line 58), the path it returned (line 100) or the step that raised.
Returned(dt, fp) == [date |-> dt, path |-> fp, error |-> ""]

Raised(step) == [date |-> NoDate, path |-> NoPath, error |-> step]

Init ==
    /\ clock = 0
    /\ serial \in BOOLEAN
    /\ dirExists = FALSE
    /\ files = [fp \in {} |-> <<>>]
    /\ pc = [p \in Procs |-> "idle"]
    /\ path_to_check = [p \in Procs |-> None]
    /\ date_today = [p \in Procs |-> NoDate]
    /\ filepath = [p \in Procs |-> NoPath]
    /\ usage = [p \in Procs |-> EmptyUsage]
    /\ row = [p \in Procs |-> NoRow]
    /\ write_header = [p \in Procs |-> FALSE]
    /\ buf = [p \in Procs |-> <<>>]
    /\ history = <<>>

\* The call ends: its locals are gone.
Leave(p, outcome) ==
    /\ pc' = [pc EXCEPT ![p] = "idle"]
    /\ path_to_check' = [path_to_check EXCEPT ![p] = None]
    /\ date_today' = [date_today EXCEPT ![p] = NoDate]
    /\ filepath' = [filepath EXCEPT ![p] = NoPath]
    /\ usage' = [usage EXCEPT ![p] = EmptyUsage]
    /\ row' = [row EXCEPT ![p] = NoRow]
    /\ write_header' = [write_header EXCEPT ![p] = FALSE]
    /\ buf' = [buf EXCEPT ![p] = <<>>]
    /\ history' = Append(history, outcome)

Goto(p, label) == pc' = [pc EXCEPT ![p] = label]


\* Variant of Call: out_dir is not created.
CallWithoutMakedirs(p) ==
    /\ pc[p] = "idle"
    /\ serial => Active = {}
    /\ Len(history) + Cardinality(Active) <
           (IF serial THEN MaxCalls ELSE MaxOverlapCalls)
    /\ \E arg \in PathArgs :
        /\ path_to_check' = [path_to_check EXCEPT
                                ![p] = IF arg = None THEN home ELSE arg]
        /\ Goto(p, "today")
        /\ UNCHANGED <<date_today, filepath, usage, row, write_header, buf,
                       history>>
    /\ UNCHANGED <<clock, serial, dirExists, files>>

\* Lines 38-56: the defaults, then os.makedirs(out_dir, exist_ok=True).
Call(p) ==
    /\ pc[p] = "idle"
    /\ serial => Active = {}
    /\ Len(history) + Cardinality(Active) <
           (IF serial THEN MaxCalls ELSE MaxOverlapCalls)
    /\ \E arg \in PathArgs :
        \/ /\ dirExists' = TRUE
           /\ path_to_check' = [path_to_check EXCEPT
                                   ![p] = IF arg = None THEN home ELSE arg]
           /\ Goto(p, "today")
           /\ UNCHANGED <<date_today, filepath, usage, row, write_header, buf,
                          history>>
        \/ /\ ~dirExists
           /\ Leave(p, Raised("makedirs"))
           /\ UNCHANGED dirExists
    /\ UNCHANGED <<clock, serial, files>>

\* Lines 58-60.
Today(p) ==
    /\ pc[p] = "today"
    /\ date_today' = [date_today EXCEPT ![p] = today(clock)]
    /\ filepath' = [filepath EXCEPT
                       ![p] = FilePath(DefaultOutDir, strftime(today(clock)))]
    /\ Goto(p, "disk_usage")
    /\ UNCHANGED <<clock, serial, dirExists, files, path_to_check, usage, row,
                   write_header, buf, history>>


\* Variant of DiskUsageFrom: the file is opened before the query.
DiskUsageAfterOpen(p, reports) ==
    /\ pc[p] = "disk_usage"
    /\ \/ \E u \in reports :
            /\ usage' = [usage EXCEPT ![p] = u]
            /\ Goto(p, "row")
            /\ UNCHANGED <<files, path_to_check, date_today, filepath, row,
                           write_header, buf, history>>
       \/ /\ files' = [fp \in DOMAIN files \cup {filepath[p]} |->
                          IF fp \in DOMAIN files THEN files[fp] ELSE <<>>]
          /\ Leave(p, Raised("disk_usage"))
    /\ UNCHANGED <<clock, serial, dirExists>>

\* Lines 63-64: the report, or the OSError of shutil.disk_usage.
DiskUsageFrom(p, reports) ==
    /\ pc[p] = "disk_usage"
    /\ \/ \E u \in reports :
            /\ usage' = [usage EXCEPT ![p] = u]
            /\ Goto(p, "row")
            /\ UNCHANGED <<path_to_check, date_today, filepath, row,
                           write_header, buf, history>>
       \/ Leave(p, Raised("disk_usage"))
    /\ UNCHANGED <<clock, serial, dirExists, files>>

DiskUsage(p) == DiskUsageFrom(p, Reports)

\* Lines 65-78: free_pct and the row.
BuildRow(p) ==
    /\ pc[p] = "row"
    /\ row' = [row EXCEPT ![p] =
          [timestamp    |-> isoformat(clock),
           path         |-> path_to_check[p],
           total_bytes  |-> usage[p].total,
           used_bytes   |-> usage[p].used,
           free_bytes   |-> usage[p].free,
           free_percent |-> free_pct(usage[p].free, usage[p].total),
           total_human  |-> _bytes_to_human(usage[p].total),
           used_human   |-> _bytes_to_human(usage[p].used),
           free_human   |-> _bytes_to_human(usage[p].free)]]
    /\ Goto(p, "exists")
    /\ UNCHANGED <<clock, serial, dirExists, files, path_to_check, date_today,
                   filepath, usage, write_header, buf, history>>

\* os.path.exists(filepath), line 92.
exists(fp) == fp \in DOMAIN files


\* Variant of Exists: the header is always wanted.
ExistsIgnored(p) ==
    /\ pc[p] = "exists"
    /\ write_header' = [write_header EXCEPT ![p] = TRUE]
    /\ Goto(p, "open")
    /\ UNCHANGED <<clock, serial, dirExists, files, path_to_check, date_today,
                   filepath, usage, row, buf, history>>

\* Line 92.
Exists(p) ==
    /\ pc[p] = "exists"
    /\ write_header' = [write_header EXCEPT ![p] = ~exists(filepath[p])]
    /\ Goto(p, "open")
    /\ UNCHANGED <<clock, serial, dirExists, files, path_to_check, date_today,
                   filepath, usage, row, buf, history>>

\* open(filepath, "a"), line 94: the file is created when it is not there,
\* and is left as it is when it is; or the open raises.
Open(p) ==
    /\ pc[p] = "open"
    /\ \/ /\ files' = [fp \in DOMAIN files \cup {filepath[p]} |->
                          IF exists(fp) THEN files[fp] ELSE <<>>]
          /\ Goto(p, "writeheader")
          /\ UNCHANGED <<path_to_check, date_today, filepath, usage, row,
                         write_header, buf, history>>
       \/ /\ Leave(p, Raised("open"))
          /\ UNCHANGED files
    /\ UNCHANGED <<clock, serial, dirExists>>


\* Variant of WriteHeader: write_header is not consulted.
WriteHeaderAlways(p) ==
    /\ pc[p] = "writeheader"
    /\ buf' = [buf EXCEPT ![p] = Append(buf[p], HeaderLine)]
    /\ Goto(p, "writerow")
    /\ UNCHANGED <<clock, serial, dirExists, files, path_to_check, date_today,
                   filepath, usage, row, write_header, history>>

\* Lines 96-97: the header goes to the buffer of f.
WriteHeader(p) ==
    /\ pc[p] = "writeheader"
    /\ buf' = [buf EXCEPT
                  ![p] = IF write_header[p] THEN Append(buf[p], HeaderLine)
                         ELSE buf[p]]
    /\ Goto(p, "writerow")
    /\ UNCHANGED <<clock, serial, dirExists, files, path_to_check, date_today,
                   filepath, usage, row, write_header, history>>

\* Line 98: the row goes to the buffer of f.
WriteRow(p) ==
    /\ pc[p] = "writerow"
    /\ buf' = [buf EXCEPT ![p] = Append(buf[p], RowLine(row[p]))]
    /\ Goto(p, "close")
    /\ UNCHANGED <<clock, serial, dirExists, files, path_to_check, date_today,
                   filepath, usage, row, write_header, history>>


\* Variant of Close: the file was opened with mode "w".
CloseTruncating(p) ==
    /\ pc[p] = "close"
    /\ files' = [files EXCEPT ![filepath[p]] = buf[p]]
    /\ Leave(p, Returned(date_today[p], filepath[p]))
    /\ UNCHANGED <<clock, serial, dirExists>>

\* The end of the with block, line 98, and the return, line 100: the buffer
\* is appended to the file in one write, and the path is returned.
Close(p) ==
    /\ pc[p] = "close"
    /\ files' = [files EXCEPT ![filepath[p]] = files[filepath[p]] \o buf[p]]
    /\ Leave(p, Returned(date_today[p], filepath[p]))
    /\ UNCHANGED <<clock, serial, dirExists>>

\* A tick of the local clock.
Tick ==
    /\ clock < MaxClock
    /\ clock' = clock + 1
    /\ UNCHANGED <<serial, dirExists, files, pc, path_to_check, date_today,
                   filepath, usage, row, write_header, buf, history>>

Next ==
    \/ Tick
    \/ \E p \in Procs :
        \/ Call(p)
        \/ Today(p)
        \/ DiskUsage(p)
        \/ BuildRow(p)
        \/ Exists(p)
        \/ Open(p)
        \/ WriteHeader(p)
        \/ WriteRow(p)
        \/ Close(p)

\* Invocations that may overlap, or not, as the caller chooses.
Spec == Init /\ [][Next]_vars

\* A caller that runs its invocations one at a time.
InitSeq == Init /\ serial = TRUE

SpecSeq == InitSeq /\ [][Next]_vars

\* One call up to its row, over the sample reports.
NextRow ==
    \E p \in {1} :
        \/ Call(p)
        \/ Today(p)
        \/ DiskUsageFrom(p, SampleReports)
        \/ BuildRow(p)

SpecRow == InitSeq /\ [][NextRow]_vars

(***************************************************************************)
(* Properties.                                                             *)
(***************************************************************************)
RECURSIVE CountKind(_, _)
CountKind(f, kind) ==
    IF f = <<>> THEN 0
    ELSE (IF Head(f).kind = kind THEN 1 ELSE 0) + CountKind(Tail(f), kind)

\* The calls that returned fp.
Successes(fp) ==
    Cardinality({i \in DOMAIN history :
                    history[i].error = "" /\ history[i].path = fp})

ReturnedPaths == {history[i].path : i \in {j \in DOMAIN history : history[j].error = ""}}

\* The header is line 1 and no other line.
OneHeaderFirst(f) ==
    /\ Len(f) >= 1
    /\ f[1].kind = "header"
    /\ f[1].cells = fieldnames
    /\ CountKind(f, "header") = 1

TsLeq(a, b) ==
    \/ strftime(a.date) < strftime(b.date)
    \/ strftime(a.date) = strftime(b.date) /\ a.time <= b.time

\* The date that the eight digits of a file's name denote.
NameDate(fp) ==
    [year |-> fp[3] \div 10000, month |-> (fp[3] \div 100) % 100, day |-> fp[3] % 100]

SameLine(a, b) == a.kind = b.kind /\ a.cells = b.cells

IsPrefix(f, g) ==
    /\ Len(f) <= Len(g)
    /\ \A i \in 1..Len(f) : SameLine(f[i], g[i])

\* C1: after N >= 1 sequential successful calls on one date, starting with
\* no file, the daily file is the header followed by exactly N data rows, in
\* call order.
C1_HeaderThenRows ==
    \A fp \in DOMAIN files :
        LET n == Successes(fp)
            f == files[fp]
        IN  n >= 1 =>
                /\ Len(f) = n + 1
                /\ f[1].kind = "header"
                /\ f[1].cells = fieldnames
                /\ \A i \in 2..(n + 1) :
                       /\ f[i].kind = "row"
                       /\ i > 2 => TsLeq(f[i - 1].cells[1], f[i].cells[1])

C1_Witness ==
    \E fp \in DOMAIN files : Successes(fp) >= 2 /\ Len(files[fp]) = Successes(fp) + 1

\* C2: two successful calls made on different dates write two distinct
\* files, each named by its date and each with exactly one header, as its
\* first line.
C2_DistinctDailyFiles ==
    \A i, j \in DOMAIN history :
        (/\ history[i].error = ""
         /\ history[j].error = ""
         /\ history[i].date # history[j].date) =>
            /\ history[i].path # history[j].path
            /\ \A k \in {i, j} :
                   /\ NameDate(history[k].path) = history[k].date
                   /\ history[k].path \in DOMAIN files
                   /\ OneHeaderFirst(files[history[k].path])

C2_Witness ==
    \E i, j \in DOMAIN history :
        /\ history[i].error = ""
        /\ history[j].error = ""
        /\ history[i].date # history[j].date
        /\ Cardinality(DOMAIN files) = 2

Built(p) == pc[p] = "exists"

Hundred == FromNat(10000)

\* C4, as claimed: free_percent is at most 100.00 whenever total > 0, and
\* 0.00 whenever total = 0.
C4_PercentInRange ==
    \A p \in Procs :
        Built(p) =>
            IF usage[p].total # <<>>
            THEN LCmp(row[p].free_percent, Hundred) <= 0
            ELSE row[p].free_percent = <<>>

\* C4, amended: free_percent is in [0.00, 100.00] whenever total > 0 and
\* free <= total, and 0.00 whenever total = 0.
C4_PercentInRangeWhenFreeWithinTotal ==
    \A p \in Procs :
        Built(p) =>
            IF usage[p].total # <<>>
            THEN LCmp(usage[p].free, usage[p].total) <= 0 =>
                     LCmp(row[p].free_percent, Hundred) <= 0
            ELSE row[p].free_percent = <<>>

C4_Witness ==
    \E p \in Procs :
        /\ Built(p)
        /\ usage[p].total # <<>>
        /\ usage[p].free # <<>>
        /\ LCmp(usage[p].free, usage[p].total) < 0
        /\ row[p].free_percent = FromNat(3333)

AllUnits == units \o <<"EB">>

Rank(h) == (CHOOSE i \in 1..Len(AllUnits) : AllUnits[i] = h.unit) - 1

\* The number of times n can be divided by 1024 while it is >= 1024.
RECURSIVE DivCount(_)
DivCount(n) == IF Len(n) <= 1 THEN 0 ELSE 1 + DivCount(Tail(n))

Counts(p) == <<usage[p].total, usage[p].used, usage[p].free>>

Humans(p) == <<row[p].total_human, row[p].used_human, row[p].free_human>>

UnitsMonotonic(p) ==
    \A i, j \in 1..3 :
        LCmp(Counts(p)[i], Counts(p)[j]) <= 0 =>
            Rank(Humans(p)[i]) <= Rank(Humans(p)[j])

\* C5, as claimed: the unit never decreases as n grows, and it is the k-th
\* unit, k the number of divisions of n by 1024, capped at EB.
C5_UnitIsDivCount ==
    \A p \in Procs :
        Built(p) =>
            /\ UnitsMonotonic(p)
            /\ \A i \in 1..3 :
                   Rank(Humans(p)[i]) = Min(DivCount(Counts(p)[i]), Len(units))

\* 2^60 - 64, the least n that float(n) rounds up to 2^60.
RoundsToEB == <<960, 1023, 1023, 1023, 1023, 1023>>

InRoundingGap(n) == Len(n) = Len(units) /\ LCmp(n, RoundsToEB) >= 0

\* C5, amended: the unit never decreases as n grows, and it is the k-th
\* unit, k the number of divisions of n by 1024, capped at EB, except for
\* 2^60 - 64 <= n < 2^60, where it is EB.
C5_UnitIsDivCountOfFloat ==
    \A p \in Procs :
        Built(p) =>
            /\ UnitsMonotonic(p)
            /\ \A i \in 1..3 :
                   Rank(Humans(p)[i]) =
                       IF InRoundingGap(Counts(p)[i]) THEN Len(units)
                       ELSE Min(DivCount(Counts(p)[i]), Len(units))

C5_Witness ==
    \E p \in Procs :
        /\ Built(p)
        /\ LCmp(usage[p].free, usage[p].total) < 0
        /\ row[p].free_human.unit = "PB"
        /\ row[p].total_human.unit = "EB"
        /\ InRoundingGap(usage[p].total)

IsScenarioRow(line) ==
    /\ line.kind = "row"
    /\ line.cells[3] = ScenarioUsage.total
    /\ line.cells[4] = ScenarioUsage.used
    /\ line.cells[5] = ScenarioUsage.free

ScenarioFile(fp, pct) ==
    Successes(fp) = 1 =>
        /\ Len(files[fp]) = 2
        /\ files[fp][1].kind = "header"
        /\ files[fp][2].kind = "row"
        /\ IsScenarioRow(files[fp][2]) =>
               /\ files[fp][2].cells[7] = [hundredths |-> 100000, unit |-> "GB"]
               /\ ToNat(files[fp][2].cells[6]) = pct

\* C6, as claimed: the first call of a day on the scenario filesystem leaves
\* the header and one row, with total_human "1000.00 GB" and free_percent
\* 53.44.
C6_Scenario5344 == \A fp \in DOMAIN files : ScenarioFile(fp, 5344)

\* C6, amended: the same, with free_percent 53.43.
C6_Scenario5343 == \A fp \in DOMAIN files : ScenarioFile(fp, 5343)

C6_Witness ==
    \E fp \in DOMAIN files :
        /\ Successes(fp) = 1
        /\ Len(files[fp]) = 2
        /\ IsScenarioRow(files[fp][2])

\* The step is a call raising at `step`.
Raises(step) ==
    /\ Len(history') = Len(history) + 1
    /\ history'[Len(history')].error = step

\* C7: after a successful call out_dir exists and the daily CSV of the
\* call's date exists inside it; when out_dir exists, os.makedirs raises
\* nothing and leaves it in place.
C7_OutDirExists ==
    [][/\ \A p \in Procs :
              (pc[p] = "close" /\ pc'[p] = "idle") =>
                  /\ dirExists'
                  /\ filepath[p] \in DOMAIN files'
                  /\ filepath[p][1] = DefaultOutDir
                  /\ NameDate(filepath[p]) = date_today[p]
       /\ dirExists => dirExists' /\ ~Raises("makedirs")]_vars

C7_Witness ==
    /\ dirExists
    /\ Len(history) >= 2
    /\ \A i \in DOMAIN history : history[i].error = ""

\* C8, as claimed: in every reachable state, interleaved invocations
\* included, each daily CSV that has a line has the header exactly once, as
\* its first line.
C8_HeaderOnceFirst ==
    \A fp \in DOMAIN files : Len(files[fp]) >= 1 => OneHeaderFirst(files[fp])

\* C8, amended: the same, when the caller runs its invocations one at a
\* time.
C8_HeaderOnceFirstWhenSerial == serial => C8_HeaderOnceFirst

C8_Witness ==
    /\ serial
    /\ \E fp \in DOMAIN files : Len(files[fp]) >= 3

\* C9: a step never removes a file, only appends to it, and changes only
\* the file of the date of the call that takes the step.
C9_AppendOnly ==
    [][/\ \A fp \in DOMAIN files :
              fp \in DOMAIN files' /\ IsPrefix(files[fp], files'[fp])
       /\ \A fp \in DOMAIN files' :
              (fp \notin DOMAIN files \/ Len(files'[fp]) # Len(files[fp])) =>
                  \E p \in Procs :
                      /\ pc[p] \in {"open", "close"}
                      /\ pc'[p] # pc[p]
                      /\ filepath[p] = fp
                      /\ NameDate(fp) = date_today[p]]_vars

C9_Witness ==
    /\ Cardinality(DOMAIN files) = 2
    /\ \E fp \in DOMAIN files : Len(files[fp]) >= 3

\* C10: every data row of disk_usage_<D>.csv has a timestamp of date D.
C10_RowDateIsFileDate ==
    \A fp \in DOMAIN files :
        \A i \in 1..Len(files[fp]) :
            files[fp][i].kind = "row" => files[fp][i].cells[1].date = NameDate(fp)

====
